---- MODULE Spec2Model ----
(***************************************************************************)
(* chillpill: catching unwinding panics with their payload, location and   *)
(* backtrace.                                                              *)
(*                                                                         *)
(* The model covers                                                        *)
(*   - src/src/lib.rs                      catch_inner (the boundary)      *)
(*   - src/src/thread_local_catch_stack.rs the per-thread frame stack      *)
(*   - src/src/panic_hook.rs               PANIC_HOOK_STATUS, the          *)
(*         registration functions add_chillpill_thread and                 *)
(*         remove_chillpill_thread, and chillpill_panic_hook               *)
(*   - src/src/panic_data.rs               PanicData and its two payload   *)
(*         methods                                                         *)
(*   - the two std facilities the code is written against: the process     *)
(*     wide panic hook slot (std::panic::take_hook / set_hook, a RwLock    *)
(*     that a panicking thread holds for reading while its hook runs) and  *)
(*     std::panic::catch_unwind / resume_unwind.                           *)
(*                                                                         *)
(* lib.rs:136 registers the calling thread through the panic_hook module.  *)
(* The registration functions panic_hook.rs defines are                    *)
(* add_chillpill_thread and remove_chillpill_thread, whose contract        *)
(* (panic_hook.rs:9-17, 21-23, 68-74) is one add on entering a catch call  *)
(* and one remove on leaving it; the boundary below brackets lib.rs:140-166*)
(* with them. panic_hook::install_if_not_installed itself is not part of  *)
(* the sources; its refusal of a first call made from an unwinding thread  *)
(* follows the documentation of catch (lib.rs:89-92).                      *)
(***************************************************************************)
EXTENDS Naturals, Sequences, FiniteSets

\* ------------------------------------------------------------------ bounds
Threads == {"t1", "t2"}

\* nesting of boundaries and raw catch_unwind scopes on one thread
MaxDepth == 2
\* boundary invocations started by one thread
MaxCalls == 2
\* raises (panic!, panic_any, resume_unwind) by one thread
MaxPanics == 2

\* ------------------------------------------------------------------ data
Files == {"lib.rs"}
Columns == {9}
\* std::panic::Location of a raise site
Lines == {1, 2}
Locations == [file : Files, line : Lines, column : Columns]

PayloadTypes == {"&str", "String", "other"}
PayloadVals == {1}
Payloads == [ty : PayloadTypes, val : PayloadVals]
NoPayload == [ty |-> "none", val |-> 0]
\* what a computation returns
Values == {1, 2}

\* the hooks the process-wide slot can hold: the hook the program registered
\* before its first catch call, std's default hook, and chillpill's own
UserHook == "user"
DefaultHook == "default"
ChillpillHook == "chillpill_panic_hook"

\* Option<T> is a sequence of length at most one
None == <<>>
Some(x) == <<x>>

VARIABLES
    HOOK,                      \* std's process-wide panic hook slot
    PANIC_HOOK_STATUS,         \* panic_hook.rs:18
    lock,                      \* holder of the PANIC_HOOK_STATUS mutex
    THREAD_LOCAL_CATCH_STACK,  \* thread_local_catch_stack.rs:48, per thread
    ctl,                       \* per thread: active catch_inner / catch_unwind scopes
    pc,                        \* per thread: position in the code
    fault,                     \* per thread: the panic in flight, if any
    previous_hook,             \* per thread: the local of add/remove (panic_hook.rs:30, 80)
    ret,                       \* per thread: the Result catch_inner has just returned
    ncalls,                    \* per thread: boundary invocations started
    npanics,                   \* per thread: raises made
    replacements,              \* set_hook(chillpill_panic_hook) calls so far
    restores,                  \* set_hook(previous_hook) calls so far
    limits,                    \* per thread: how much the thread's program does
    env,                       \* RUST_LIB_BACKTRACE / RUST_BACKTRACE ask for backtraces
    installed,                 \* the installation has happened once in the process
    suspended,                 \* per thread: the panic whose unwinding runs a destructor
    stale,                     \* per thread: last location the hook left in a popped frame
    panic_data,                \* a PanicData value in the caller's hands
    out                        \* what a PanicData method returned for it

vars == <<HOOK, PANIC_HOOK_STATUS, lock, THREAD_LOCAL_CATCH_STACK, ctl, pc, fault,
          previous_hook, ret, ncalls, npanics, replacements, restores, limits,
          env, installed, suspended, stale, panic_data, out>>

Free == "free"

\* ------------------------------------------------------------------ PanicHookStatus
NotReplaced == [tag |-> "NotReplaced", previous_hook |-> "", threads_in_catch |-> 0]
Replaced(prev, n) == [tag |-> "Replaced", previous_hook |-> prev, threads_in_catch |-> n]

\* ------------------------------------------------------------------ frames
Disabled == "disabled"

\* a std::backtrace::Backtrace that holds a capture
Captured == "captured"

CatchStackFrame_kept(capture_backtrace) ==
    [capture_backtrace |-> capture_backtrace,
     location |-> <<[file |-> "lib.rs", line |-> 1, col |-> 9]>>,
     backtrace |-> Disabled]

CatchStackFrame_captured(capture_backtrace) ==
    [capture_backtrace |-> capture_backtrace, location |-> <<>>, backtrace |-> Captured]

CatchStackFrame_new(capture_backtrace) ==
    [capture_backtrace |-> capture_backtrace, location |-> None, backtrace |-> Disabled]

CaptureBacktrace == {"Always", "Default", "Never"}

\* info.location().map(|location| PanicLocation { file, line, col })
PanicLocation_swapped(location) ==
    [file |-> location.file, line |-> location.column, col |-> location.line]

PanicLocation_from(location) ==
    [file |-> location.file, line |-> location.line, col |-> location.column]

\* stack.last_mut(): the index of the frame the hook writes
first_mut(stack) == IF stack = <<>> THEN 0 ELSE 1

last_mut(stack) == Len(stack)

\* thread_local!: the stack a thread's access resolves to
process_wide(t) == "t1"

thread_local(t) == t

\* stack.push(frame) and Vec::pop on a stack that is not empty
push_if_empty(stack, frame) == IF stack = <<>> THEN <<frame>> ELSE stack

Vec_push(stack, frame) == Append(stack, frame)

pop_all(stack) == <<>>

Vec_pop(stack) == SubSeq(stack, 1, Len(stack) - 1)

\* PANIC_LOCATION_STACK.with_borrow(Vec::is_empty)
Vec_is_shallow(stack) == Len(stack) <= 1

Vec_is_empty(stack) == stack = <<>>

\* the branch of chillpill_panic_hook that stores the location
smuggle_first(stack, info) ==
    IF stack[Len(stack)].location = <<>>
    THEN [stack EXCEPT ![Len(stack)].location = <<PanicLocation_from(info.location)>>]
    ELSE stack

\* the same branch, were the assignment to replace the whole top element
smuggle_whole(stack, info) ==
    [stack EXCEPT ![Len(stack)] =
        [capture_backtrace |-> "Default",
         location |-> <<PanicLocation_from(info.location)>>,
         backtrace |-> "disabled"]]

smuggle(stack, info) ==
    [stack EXCEPT ![last_mut(stack)].location = Some(PanicLocation_from(info.location))]

\* ------------------------------------------------------------------ results
Ok(v) == [tag |-> "Ok", value |-> v, payload |-> NoPayload]
Err(p) == [tag |-> "Err", value |-> 0, payload |-> p]

\* std::panic::catch_unwind on a computation that unwound with fault f
catch_unwind_stringified(f) == Err([ty |-> "String", val |-> f.payload.val])

catch_unwind_err(f) == Err(f.payload)

PanicData(payload, location, backtrace) ==
    [payload |-> payload, location |-> location, backtrace |-> backtrace]

ResultOk(v) == [tag |-> "Ok", value |-> v, data |-> None]
ResultErr(d) == [tag |-> "Err", value |-> 0, data |-> Some(d)]

\* catch_unwind_result.map_err(|payload| PanicData { payload, location, backtrace })
map_err_if_hooked(r, frame) ==
    IF r.tag = "Ok" /\ frame.location = None
    THEN ResultOk(r.value)
    ELSE ResultErr(PanicData(r.payload, frame.location, frame.backtrace))

map_err(r, frame) ==
    IF r.tag = "Ok"
    THEN ResultOk(r.value)
    ELSE ResultErr(PanicData(r.payload, frame.location, frame.backtrace))

\* ------------------------------------------------------------------ scopes
\* One active call on a thread: catch_inner, or a raw std::panic::catch_unwind made
\* by a computation. result and frame are catch_inner's locals (lib.rs:148, 152);
\* did records what the computation did, last the most recent hook-invoking
\* raise made while this call was the innermost catch_inner, and discarded the most
\* recent panic of the computation that a raw catch_unwind caught and dropped.
CatchScope(cb) ==
    [kind |-> "catch", capture_backtrace |-> cb, result |-> None, frame |-> None,
     did |-> None, last |-> None, discarded |-> None]
RawScope ==
    [kind |-> "raw", capture_backtrace |-> "Never", result |-> None, frame |-> None,
     did |-> None, last |-> None, discarded |-> None]

NoLocation == [file |-> "", line |-> 0, column |-> 0]
Returned(v) ==
    [tag |-> "returned", value |-> v, payload |-> NoPayload, location |-> NoLocation,
     hooked |-> FALSE]
Faulted(f) ==
    [tag |-> "fault", value |-> 0, payload |-> f.payload, location |-> f.location,
     hooked |-> f.hooked]

Top(s) == s[Len(s)]
Pop(s) == SubSeq(s, 1, Len(s) - 1)
SetTop(s, x) == [s EXCEPT ![Len(s)] = x]

InCatch(t) == \E i \in 1..Len(ctl[t]) : ctl[t][i].kind = "catch"

\* index of the innermost catch_inner on a thread's call stack, 0 if none
Innermost(s) ==
    IF \E i \in 1..Len(s) : s[i].kind = "catch"
    THEN CHOOSE i \in 1..Len(s) :
            /\ s[i].kind = "catch"
            /\ \A j \in (i + 1)..Len(s) : s[j].kind # "catch"
    ELSE 0

\* the calling thread's stack
MyStack(t) == THREAD_LOCAL_CATCH_STACK[thread_local(t)]

\* std::thread::panicking(): the thread is running a destructor for an unwinding panic
panicking(t) == suspended[t] # None

\* a panic raised on a thread that is already unwinding leaves the destructor that
\* raised it, and the process aborts: no thread takes another step
Abort(t, why) == [u \in Threads |-> IF u = t THEN why ELSE "aborted"]

\* threads that hold std's hook lock for reading (their hook is running)
no_readers == {}

Readers == {t \in Threads : pc[t] = "hook_lock"}

Start ==
    /\ HOOK = UserHook
    /\ PANIC_HOOK_STATUS = NotReplaced
    /\ lock = Free
    /\ THREAD_LOCAL_CATCH_STACK = [t \in Threads |-> <<>>]
    /\ ctl = [t \in Threads |-> <<>>]
    /\ pc = [t \in Threads |-> "run"]
    /\ fault = [t \in Threads |-> None]
    /\ previous_hook = [t \in Threads |-> ""]
    /\ ret = [t \in Threads |-> None]
    /\ ncalls = [t \in Threads |-> 0]
    /\ npanics = [t \in Threads |-> 0]
    /\ replacements = 0
    /\ restores = 0
    /\ installed = FALSE
    /\ suspended = [t \in Threads |-> None]
    /\ stale = [t \in Threads |-> None]
    /\ panic_data = None
    /\ out = None

\* two threads, each making one boundary call and one raise; t1's computation may
\* use a raw catch_unwind; the environment asks for no backtraces
Init ==
    /\ Start
    /\ env = FALSE
    /\ limits = [t \in Threads |->
                    [calls |-> 1, panics |-> 1,
                     depth |-> IF t = "t1" THEN MaxDepth ELSE 1]]

\* one thread, nesting and repeating boundary calls, under either environment
InitSeq ==
    /\ Start
    /\ env \in BOOLEAN
    /\ limits = [t \in Threads |->
                    IF t = "t1"
                    THEN [calls |-> MaxCalls, panics |-> MaxPanics, depth |-> MaxDepth]
                    ELSE [calls |-> 0, panics |-> 0, depth |-> 0]]


\* ------------------------------------------------------------------ the boundary: entry
\* catch / catch_force_backtrace / catch_never_backtrace call catch_inner with
\* their policy (lib.rs:97-129)
CatchCall(t, cb) ==
    /\ pc[t] = "run"
    /\ Len(ctl[t]) < limits[t].depth
    /\ ncalls[t] < limits[t].calls
    /\ ctl' = [ctl EXCEPT ![t] = Append(@, CatchScope(cb))]
    /\ ncalls' = [ncalls EXCEPT ![t] = @ + 1]
    /\ pc' = [pc EXCEPT ![t] = "add_lock"]
    /\ UNCHANGED <<HOOK, PANIC_HOOK_STATUS, lock, THREAD_LOCAL_CATCH_STACK, fault,
                   previous_hook, ret, npanics, replacements, restores, limits,
                   env, installed, suspended, stale, panic_data, out>>

\* match *panic_hook_status { NotReplaced => .. } (panic_hook.rs:27-29)
replace_always(status) == TRUE

must_replace(status) == status.tag = "NotReplaced"

\* panic_hook::install_if_not_installed() as lib.rs:136 uses it: Err(()) when no
\* installation has happened yet and the calling thread is unwinding
install_if_not_installed(was_installed, unwinding) ==
    IF ~was_installed /\ unwinding THEN "Err" ELSE "Ok"

\* the hook slot as a refusing install_if_not_installed leaves it: the test comes
\* before any access to the slot
refused_after_take(hook) == DefaultHook

refused_install(hook) == hook

\* lib.rs:136-138, then add_chillpill_thread: lock, and the Replaced arm
\* (panic_hook.rs:25-27, 41-55). The first-call test waits, like the registration,
\* for an installation in progress. On Err the boundary panics (lib.rs:137) on a
\* thread that is already unwinding. checked_add overflows only at usize::MAX
\* threads, which no run here reaches.
AddLock(t) ==
    /\ pc[t] = "add_lock"
    /\ lock = Free
    /\ IF install_if_not_installed(installed, panicking(t)) = "Err"
       THEN /\ pc' = Abort(t, "refused")
            /\ HOOK' = refused_install(HOOK)
            /\ UNCHANGED <<lock, PANIC_HOOK_STATUS>>
       ELSE /\ lock' = t
            /\ UNCHANGED HOOK
            /\ IF must_replace(PANIC_HOOK_STATUS)
               THEN /\ pc' = [pc EXCEPT ![t] = "add_take"]
                    /\ UNCHANGED PANIC_HOOK_STATUS
               ELSE /\ PANIC_HOOK_STATUS' =
                           [PANIC_HOOK_STATUS EXCEPT !.threads_in_catch = @ + 1]
                    /\ pc' = [pc EXCEPT ![t] = "add_unlock"]
    /\ UNCHANGED <<THREAD_LOCAL_CATCH_STACK, ctl, fault, previous_hook, ret,
                   ncalls, npanics, replacements, restores, limits,
                   env, installed, suspended, stale, panic_data, out>>

\* let previous_hook = std::panic::take_hook() (panic_hook.rs:30): the slot is
\* written under std's hook lock, which waits for running hooks to finish, and is
\* left holding the default hook; std panics instead when the thread is panicking
AddTakeHook(t) ==
    /\ pc[t] = "add_take"
    /\ IF panicking(t)
       THEN /\ pc' = Abort(t, "take_hook_panicked")
            /\ UNCHANGED <<previous_hook, HOOK>>
       ELSE /\ Readers = {}
            /\ previous_hook' = [previous_hook EXCEPT ![t] = HOOK]
            /\ HOOK' = DefaultHook
            /\ pc' = [pc EXCEPT ![t] = "add_set"]
    /\ UNCHANGED <<PANIC_HOOK_STATUS, lock, THREAD_LOCAL_CATCH_STACK, ctl, fault, ret,
                   ncalls, npanics, replacements, restores, limits,
                   env, installed, suspended, stale, panic_data, out>>

\* std::panic::set_hook(Box::new(chillpill_panic_hook)) and the status update
\* (panic_hook.rs:31-36)
AddSetHook(t) ==
    /\ pc[t] = "add_set"
    /\ Readers = {}
    /\ HOOK' = ChillpillHook
    /\ PANIC_HOOK_STATUS' = Replaced(previous_hook[t], 1)
    /\ replacements' = replacements + 1
    /\ installed' = TRUE
    /\ pc' = [pc EXCEPT ![t] = "add_unlock"]
    /\ UNCHANGED <<lock, THREAD_LOCAL_CATCH_STACK, ctl, fault, previous_hook, ret,
                   ncalls, npanics, restores, limits,
                   env, suspended, stale, panic_data, out>>

\* drop(panic_hook_status) (panic_hook.rs:65)
AddUnlock(t) ==
    /\ pc[t] = "add_unlock"
    /\ lock' = Free
    /\ pc' = [pc EXCEPT ![t] = "push"]
    /\ UNCHANGED <<HOOK, PANIC_HOOK_STATUS, THREAD_LOCAL_CATCH_STACK, ctl, fault,
                   previous_hook, ret, ncalls, npanics, replacements, restores, limits,
                   env, installed, suspended, stale, panic_data, out>>

\* stack.push(CatchStackFrame::new(capture_backtrace)) (lib.rs:142-144)
Push(t) ==
    /\ pc[t] = "push"
    /\ THREAD_LOCAL_CATCH_STACK' =
           [THREAD_LOCAL_CATCH_STACK EXCEPT ![thread_local(t)] =
               Vec_push(@, CatchStackFrame_new(Top(ctl[t]).capture_backtrace))]
    /\ pc' = [pc EXCEPT ![t] = "run"]
    /\ UNCHANGED <<HOOK, PANIC_HOOK_STATUS, lock, ctl, fault, previous_hook, ret,
                   ncalls, npanics, replacements, restores, limits,
                   env, installed, suspended, stale, panic_data, out>>

\* ------------------------------------------------------------------ computations
\* the computation of the innermost catch_inner returns v: catch_unwind gives Ok(v)
\* (lib.rs:148)
Return(t, v) ==
    /\ pc[t] = "run"
    /\ ctl[t] # <<>>
    /\ Top(ctl[t]).kind = "catch"
    /\ ctl' = [ctl EXCEPT ![t] =
                 SetTop(@, [Top(@) EXCEPT !.result = Some(Ok(v)),
                                          !.did = Some(Returned(v))])]
    /\ pc' = [pc EXCEPT ![t] = "pop"]
    /\ UNCHANGED <<HOOK, PANIC_HOOK_STATUS, lock, THREAD_LOCAL_CATCH_STACK, fault,
                   previous_hook, ret, ncalls, npanics, replacements, restores, limits,
                   env, installed, suspended, stale, panic_data, out>>

\* the code calls std::panic::catch_unwind itself (lib.rs:290, 320; tests/*.rs)
RawCatchCall(t) ==
    /\ pc[t] = "run"
    /\ Len(ctl[t]) < limits[t].depth
    /\ npanics[t] < limits[t].panics
    /\ ctl' = [ctl EXCEPT ![t] = Append(@, RawScope)]
    /\ UNCHANGED <<HOOK, PANIC_HOOK_STATUS, lock, THREAD_LOCAL_CATCH_STACK, pc, fault,
                   previous_hook, ret, ncalls, npanics, replacements, restores, limits,
                   env, installed, suspended, stale, panic_data, out>>

\* the closure given to a raw catch_unwind returns
RawReturn(t) ==
    /\ pc[t] = "run"
    /\ ctl[t] # <<>>
    /\ Top(ctl[t]).kind = "raw"
    /\ ctl' = [ctl EXCEPT ![t] = Pop(@)]
    /\ UNCHANGED <<HOOK, PANIC_HOOK_STATUS, lock, THREAD_LOCAL_CATCH_STACK, pc, fault,
                   previous_hook, ret, ncalls, npanics, replacements, restores, limits,
                   env, installed, suspended, stale, panic_data, out>>

\* ------------------------------------------------------------------ raises and the hook
\* &PanicHookInfo of a raise
Info(p, l) == [payload |-> p, location |-> l]

\* the panic in flight after a raise by thread t
NewFault(t, p, l, hooked) ==
    [payload |-> p, location |-> l, hooked |-> hooked,
     in_catch |-> MyStack(t) # <<>>,
     other_in |-> \E u \in Threads \ {t} : THREAD_LOCAL_CATCH_STACK[u] # <<>>,
     after_return |-> (~InCatch(t)) /\ ncalls[t] >= 1,
     depth |-> Len(ctl[t]),
     delivered |-> <<>>]

\* the raise is noted on the innermost catch_inner of the thread
NoteRaise(s, l) ==
    IF Innermost(s) = 0
    THEN s
    ELSE [s EXCEPT ![Innermost(s)].last =
             Some([file |-> l.file, line |-> l.line, col |-> l.column])]

CanRaise(t) ==
    /\ pc[t] = "run"
    /\ npanics[t] < limits[t].panics

\* panic!(..) / panic_any(..) where std finds chillpill_panic_hook in the slot and
\* the thread is in a catch call: the hook stores the location in the top frame and
\* returns (panic_hook.rs:125, 138-147)
PanicStored(t, p, l) ==
    /\ CanRaise(t)
    /\ HOOK = ChillpillHook
    /\ ~Vec_is_empty(MyStack(t))
    /\ THREAD_LOCAL_CATCH_STACK' =
           [THREAD_LOCAL_CATCH_STACK EXCEPT ![thread_local(t)] = smuggle(@, Info(p, l))]
    /\ fault' = [fault EXCEPT ![t] = Some(NewFault(t, p, l, TRUE))]
    /\ ctl' = [ctl EXCEPT ![t] = NoteRaise(@, l)]
    /\ npanics' = [npanics EXCEPT ![t] = @ + 1]
    /\ pc' = [pc EXCEPT ![t] = "unwind"]
    /\ UNCHANGED <<HOOK, PANIC_HOOK_STATUS, lock, previous_hook, ret, ncalls,
                   replacements, restores, limits,
                   env, installed, suspended, stale, panic_data, out>>

\* the same raise on a thread whose stack is empty: the hook goes on to lock
\* PANIC_HOOK_STATUS, holding std's hook lock for reading (panic_hook.rs:125-126)
PanicDelegating(t, p, l) ==
    /\ CanRaise(t)
    /\ HOOK = ChillpillHook
    /\ Vec_is_empty(MyStack(t))
    /\ fault' = [fault EXCEPT ![t] = Some(NewFault(t, p, l, TRUE))]
    /\ ctl' = [ctl EXCEPT ![t] = NoteRaise(@, l)]
    /\ npanics' = [npanics EXCEPT ![t] = @ + 1]
    /\ pc' = [pc EXCEPT ![t] = "hook_lock"]
    /\ UNCHANGED <<HOOK, PANIC_HOOK_STATUS, lock, THREAD_LOCAL_CATCH_STACK,
                   previous_hook, ret, ncalls, replacements, restores, limits,
                   env, installed, suspended, stale, panic_data, out>>

\* the hook chillpill_panic_hook calls on an empty stack (panic_hook.rs:126, 133)
default_hook_of(status) == DefaultHook

previous_hook_of(status) == status.previous_hook

\* PANIC_HOOK_STATUS.lock(), previous_hook(info), return (panic_hook.rs:126-135);
\* the guard lives to the end of the if block
HookLock(t) ==
    /\ pc[t] = "hook_lock"
    /\ lock = Free
    /\ IF PANIC_HOOK_STATUS.tag = "Replaced"
       THEN /\ fault' = [fault EXCEPT ![t] =
                   Some([@[1] EXCEPT !.delivered =
                       Append(@, [hook |-> previous_hook_of(PANIC_HOOK_STATUS),
                                  info |-> Info(fault[t][1].payload,
                                                fault[t][1].location)])])]
            /\ pc' = [pc EXCEPT ![t] = "unwind"]
       ELSE /\ pc' = [pc EXCEPT ![t] = "unreachable"]
            /\ UNCHANGED fault
    /\ UNCHANGED <<HOOK, PANIC_HOOK_STATUS, lock, THREAD_LOCAL_CATCH_STACK, ctl,
                   previous_hook, ret, ncalls, npanics, replacements, restores, limits,
                   env, installed, suspended, stale, panic_data, out>>

\* a raise while the slot holds another hook: std calls that hook
PanicOtherHook(t, p, l) ==
    /\ CanRaise(t)
    /\ HOOK # ChillpillHook
    /\ fault' = [fault EXCEPT ![t] =
           Some([NewFault(t, p, l, TRUE) EXCEPT !.delivered =
               <<[hook |-> HOOK, info |-> Info(p, l)]>>])]
    /\ ctl' = [ctl EXCEPT ![t] = NoteRaise(@, l)]
    /\ npanics' = [npanics EXCEPT ![t] = @ + 1]
    /\ pc' = [pc EXCEPT ![t] = "unwind"]
    /\ UNCHANGED <<HOOK, PANIC_HOOK_STATUS, lock, THREAD_LOCAL_CATCH_STACK,
                   previous_hook, ret, ncalls, replacements, restores, limits,
                   env, installed, suspended, stale, panic_data, out>>

\* std::panic::resume_unwind(payload): unwinds without calling the hook
\* (lib.rs:67-83)
ResumeUnwind(t, p) ==
    /\ CanRaise(t)
    /\ fault' = [fault EXCEPT ![t] = Some(NewFault(t, p, NoLocation, FALSE))]
    /\ npanics' = [npanics EXCEPT ![t] = @ + 1]
    /\ pc' = [pc EXCEPT ![t] = "unwind"]
    /\ UNCHANGED <<HOOK, PANIC_HOOK_STATUS, lock, THREAD_LOCAL_CATCH_STACK, ctl,
                   previous_hook, ret, ncalls, replacements, restores, limits,
                   env, installed, suspended, stale, panic_data, out>>

\* ------------------------------------------------------------------ unwinding
\* the unwind reaches catch_inner's catch_unwind (lib.rs:148)
UnwindToCatch(t) ==
    /\ pc[t] = "unwind"
    /\ ctl[t] # <<>>
    /\ Top(ctl[t]).kind = "catch"
    /\ ctl' = [ctl EXCEPT ![t] =
                 SetTop(@, [Top(@) EXCEPT !.result = Some(catch_unwind_err(fault[t][1])),
                                          !.did = Some(Faulted(fault[t][1]))])]
    /\ fault' = [fault EXCEPT ![t] = None]
    /\ pc' = [pc EXCEPT ![t] = "pop"]
    /\ UNCHANGED <<HOOK, PANIC_HOOK_STATUS, lock, THREAD_LOCAL_CATCH_STACK,
                   previous_hook, ret, ncalls, npanics, replacements, restores, limits,
                   env, installed, suspended, stale, panic_data, out>>

\* the panic a raw catch_unwind dropped is noted on the innermost catch_inner
NoteDiscard(s, f) ==
    IF Innermost(s) = 0
    THEN s
    ELSE [s EXCEPT ![Innermost(s)].discarded = Some(Faulted(f))]

\* the unwind reaches a raw catch_unwind, whose caller discards the payload
UnwindToRaw(t) ==
    /\ pc[t] = "unwind"
    /\ ctl[t] # <<>>
    /\ Top(ctl[t]).kind = "raw"
    /\ ctl' = [ctl EXCEPT ![t] = NoteDiscard(Pop(@), fault[t][1])]
    /\ fault' = [fault EXCEPT ![t] = None]
    /\ pc' = [pc EXCEPT ![t] = "run"]
    /\ UNCHANGED <<HOOK, PANIC_HOOK_STATUS, lock, THREAD_LOCAL_CATCH_STACK,
                   previous_hook, ret, ncalls, npanics, replacements, restores, limits,
                   env, installed, suspended, stale, panic_data, out>>

\* nothing catches the unwind: the thread ends
UnwindEndsThread(t) ==
    /\ pc[t] = "unwind"
    /\ ctl[t] = <<>>
    /\ fault' = [fault EXCEPT ![t] = None]
    /\ pc' = [pc EXCEPT ![t] = "dead"]
    /\ UNCHANGED <<HOOK, PANIC_HOOK_STATUS, lock, THREAD_LOCAL_CATCH_STACK, ctl,
                   previous_hook, ret, ncalls, npanics, replacements, restores, limits,
                   env, installed, suspended, stale, panic_data, out>>

\* ------------------------------------------------------------------ the boundary: exit
\* THREAD_LOCAL_CATCH_STACK.with_borrow_mut(Vec::pop).expect(..) (lib.rs:152-154)
PopFrame(t) ==
    /\ pc[t] = "pop"
    /\ IF MyStack(t) = <<>>
       THEN /\ pc' = [pc EXCEPT ![t] = "expect_failed"]
            /\ UNCHANGED <<THREAD_LOCAL_CATCH_STACK, ctl>>
       ELSE /\ ctl' = [ctl EXCEPT ![t] =
                         SetTop(@, [Top(@) EXCEPT !.frame = Some(Top(MyStack(t)))])]
            /\ THREAD_LOCAL_CATCH_STACK' =
                   [THREAD_LOCAL_CATCH_STACK EXCEPT ![thread_local(t)] = Vec_pop(@)]
            /\ pc' = [pc EXCEPT ![t] = "rem_lock"]
    /\ UNCHANGED <<HOOK, PANIC_HOOK_STATUS, lock, fault, previous_hook, ret, ncalls,
                   npanics, replacements, restores, limits,
                   env, installed, suspended, stale, panic_data, out>>

\* match threads_in_catch.get() { 1 => .. } (panic_hook.rs:87-92)
is_at_most_two(n) == n <= 2

is_last(n) == n = 1

\* remove_chillpill_thread: lock, mem::replace, and the arms that do not touch the
\* hook slot (panic_hook.rs:76-90, 95-100)
RemLock(t) ==
    /\ pc[t] = "rem_lock"
    /\ lock = Free
    /\ lock' = t
    /\ IF PANIC_HOOK_STATUS.tag # "Replaced"
       THEN /\ PANIC_HOOK_STATUS' = NotReplaced
            /\ pc' = [pc EXCEPT ![t] = "remove_panicked"]
            /\ UNCHANGED previous_hook
       ELSE IF is_last(PANIC_HOOK_STATUS.threads_in_catch)
       THEN /\ PANIC_HOOK_STATUS' = NotReplaced
            /\ previous_hook' =
                   [previous_hook EXCEPT ![t] = PANIC_HOOK_STATUS.previous_hook]
            /\ pc' = [pc EXCEPT ![t] = "rem_set"]
       ELSE /\ PANIC_HOOK_STATUS' =
                   [PANIC_HOOK_STATUS EXCEPT !.threads_in_catch = @ - 1]
            /\ pc' = [pc EXCEPT ![t] = "rem_unlock"]
            /\ UNCHANGED previous_hook
    /\ UNCHANGED <<HOOK, THREAD_LOCAL_CATCH_STACK, ctl, fault, ret, ncalls, npanics,
                   replacements, restores, limits,
                   env, installed, suspended, stale, panic_data, out>>

\* 1 => std::panic::set_hook(previous_hook) (panic_hook.rs:92); std panics instead
\* when the thread is panicking
RemSetHook(t) ==
    /\ pc[t] = "rem_set"
    /\ IF panicking(t)
       THEN /\ pc' = Abort(t, "set_hook_panicked")
            /\ UNCHANGED <<HOOK, restores>>
       ELSE /\ Readers = {}
            /\ HOOK' = previous_hook[t]
            /\ restores' = restores + 1
            /\ pc' = [pc EXCEPT ![t] = "rem_unlock"]
    /\ UNCHANGED <<PANIC_HOOK_STATUS, lock, THREAD_LOCAL_CATCH_STACK, ctl, fault,
                   previous_hook, ret, ncalls, npanics, replacements, limits,
                   env, installed, suspended, stale, panic_data, out>>

\* drop(panic_hook_status) (panic_hook.rs:110)
RemUnlock(t) ==
    /\ pc[t] = "rem_unlock"
    /\ lock' = Free
    /\ pc' = [pc EXCEPT ![t] = "map_err"]
    /\ UNCHANGED <<HOOK, PANIC_HOOK_STATUS, THREAD_LOCAL_CATCH_STACK, ctl, fault,
                   previous_hook, ret, ncalls, npanics, replacements, restores, limits,
                   env, installed, suspended, stale, panic_data, out>>

\* catch_inner returns catch_unwind_result.map_err(..) to its caller (lib.rs:157-166)
MapErr(t) ==
    /\ pc[t] = "map_err"
    /\ ret' = [ret EXCEPT ![t] =
           Some([result |-> map_err(Top(ctl[t]).result[1], Top(ctl[t]).frame[1]),
                 did |-> Top(ctl[t]).did[1],
                 last |-> Top(ctl[t]).last,
                 discarded |-> Top(ctl[t]).discarded,
                 stale |-> stale[t],
                 capture_backtrace |-> Top(ctl[t]).capture_backtrace,
                 depth |-> Cardinality({i \in 1..Len(ctl[t]) : ctl[t][i].kind = "catch"})])]
    /\ stale' = [stale EXCEPT ![t] =
           IF Top(ctl[t]).frame[1].location = None THEN @
           ELSE Top(ctl[t]).frame[1].location]
    /\ ctl' = [ctl EXCEPT ![t] = Pop(@)]
    /\ pc' = [pc EXCEPT ![t] = "returned"]
    /\ UNCHANGED <<HOOK, PANIC_HOOK_STATUS, lock, THREAD_LOCAL_CATCH_STACK, fault,
                   previous_hook, ncalls, npanics, replacements, restores, limits,
                   env, installed, suspended, panic_data, out>>

\* the caller takes the Result and goes on (lib.rs:179, 193; tests/*.rs); a
\* destructor that made the call ends and the unwinding that ran it goes on
Resume(t) ==
    /\ pc[t] = "returned"
    /\ ret' = [ret EXCEPT ![t] = None]
    /\ IF panicking(t)
       THEN /\ fault' = [fault EXCEPT ![t] = suspended[t]]
            /\ suspended' = [suspended EXCEPT ![t] = None]
            /\ pc' = [pc EXCEPT ![t] = "unwind"]
       ELSE /\ pc' = [pc EXCEPT ![t] = "run"]
            /\ UNCHANGED <<fault, suspended>>
    /\ UNCHANGED <<HOOK, PANIC_HOOK_STATUS, lock, THREAD_LOCAL_CATCH_STACK, ctl,
                   previous_hook, ncalls, npanics, replacements, restores, limits,
                   env, installed, stale, panic_data, out>>

\* a destructor run by the unwinding of a panic calls catch (lib.rs:36-40, 89-92)
DropCatchCall(t, cb) ==
    /\ pc[t] = "unwind"
    /\ ~panicking(t)
    /\ Len(ctl[t]) < limits[t].depth
    /\ ncalls[t] < limits[t].calls
    /\ suspended' = [suspended EXCEPT ![t] = fault[t]]
    /\ fault' = [fault EXCEPT ![t] = None]
    /\ ctl' = [ctl EXCEPT ![t] = Append(@, CatchScope(cb))]
    /\ ncalls' = [ncalls EXCEPT ![t] = @ + 1]
    /\ pc' = [pc EXCEPT ![t] = "add_lock"]
    /\ UNCHANGED <<HOOK, PANIC_HOOK_STATUS, lock, THREAD_LOCAL_CATCH_STACK,
                   previous_hook, ret, npanics, replacements, restores, limits,
                   env, installed, stale, panic_data, out>>

\* ------------------------------------------------------------------ specification
Next ==
    \E t \in Threads :
        \/ \E cb \in CaptureBacktrace : CatchCall(t, cb)
        \/ AddLock(t)
        \/ AddTakeHook(t)
        \/ AddSetHook(t)
        \/ AddUnlock(t)
        \/ Push(t)
        \/ \E v \in Values : Return(t, v)
        \/ RawCatchCall(t)
        \/ RawReturn(t)
        \/ \E p \in Payloads, l \in Locations : PanicStored(t, p, l)
        \/ \E p \in Payloads, l \in Locations : PanicDelegating(t, p, l)
        \/ HookLock(t)
        \/ \E p \in Payloads, l \in Locations : PanicOtherHook(t, p, l)
        \/ \E p \in Payloads : ResumeUnwind(t, p)
        \/ UnwindToCatch(t)
        \/ UnwindToRaw(t)
        \/ UnwindEndsThread(t)
        \/ PopFrame(t)
        \/ RemLock(t)
        \/ RemSetHook(t)
        \/ RemUnlock(t)
        \/ MapErr(t)
        \/ Resume(t)

Spec == Init /\ [][Next]_vars

\* the same program run by one thread alone: no other thread is ever inside a catch
\* call, so the hook never runs on an empty stack
NextSeq ==
    \E t \in {"t1"} :
        \/ \E cb \in CaptureBacktrace : CatchCall(t, cb)
        \/ AddLock(t)
        \/ AddTakeHook(t)
        \/ AddSetHook(t)
        \/ AddUnlock(t)
        \/ Push(t)
        \/ \E v \in Values : Return(t, v)
        \/ RawCatchCall(t)
        \/ RawReturn(t)
        \/ \E p \in Payloads, l \in Locations : PanicStored(t, p, l)
        \/ \E p \in Payloads, l \in Locations : PanicOtherHook(t, p, l)
        \/ \E p \in Payloads : ResumeUnwind(t, p)
        \/ UnwindToCatch(t)
        \/ UnwindToRaw(t)
        \/ UnwindEndsThread(t)
        \/ PopFrame(t)
        \/ RemLock(t)
        \/ RemSetHook(t)
        \/ RemUnlock(t)
        \/ MapErr(t)
        \/ Resume(t)

SpecSeq == InitSeq /\ [][NextSeq]_vars

\* two threads; t1 may also call catch from a destructor while it unwinds
InitUnwind ==
    /\ Start
    /\ env = FALSE
    /\ limits = [t \in Threads |->
                    IF t = "t1"
                    THEN [calls |-> MaxCalls, panics |-> 1, depth |-> MaxDepth]
                    ELSE [calls |-> 1, panics |-> 0, depth |-> 1]]

NextUnwind ==
    \/ Next
    \/ \E t \in Threads, cb \in CaptureBacktrace : DropCatchCall(t, cb)

SpecUnwind == InitUnwind /\ [][NextUnwind]_vars

\* ------------------------------------------------------------------ PanicData methods
\* what a payload of a record in the caller's hands can hold, and the locations and
\* backtraces a record can carry
DataVals == {1, 2}
DataPayloads == [ty : PayloadTypes, val : DataVals]
OptLocations == {None} \cup {Some(PanicLocation_from(l)) : l \in Locations}
Backtraces == {Disabled, Captured}

\* PanicData::payload_as_string: downcast_ref::<&str>, then downcast_ref::<String>
as_string_str_only(self) ==
    IF self.payload.ty = "&str" THEN Some(self.payload.val) ELSE None

payload_as_string(self) ==
    IF self.payload.ty = "&str" THEN Some(self.payload.val)
    ELSE IF self.payload.ty = "String" THEN Some(self.payload.val)
    ELSE None

\* PanicData::payload_into_string: downcast::<&str>, then downcast::<String>, else
\* Err with a record re-created from the parts
into_string_no_location(self) ==
    IF self.payload.ty = "&str"
    THEN [tag |-> "Ok", cow |-> "Borrowed", text |-> self.payload.val, data |-> None]
    ELSE IF self.payload.ty = "String"
    THEN [tag |-> "Ok", cow |-> "Owned", text |-> self.payload.val, data |-> None]
    ELSE [tag |-> "Err", cow |-> "", text |-> 0,
          data |-> Some(PanicData(self.payload, None, self.backtrace))]

payload_into_string(self) ==
    IF self.payload.ty = "&str"
    THEN [tag |-> "Ok", cow |-> "Borrowed", text |-> self.payload.val, data |-> None]
    ELSE IF self.payload.ty = "String"
    THEN [tag |-> "Ok", cow |-> "Owned", text |-> self.payload.val, data |-> None]
    ELSE [tag |-> "Err", cow |-> "", text |-> 0,
          data |-> Some(PanicData(self.payload, self.location, self.backtrace))]

\* a caller that holds no record and whose threads make no catch calls
InitData ==
    /\ Start
    /\ env = FALSE
    /\ limits = [t \in Threads |-> [calls |-> 0, panics |-> 0, depth |-> 0]]

\* the caller gets the record catch_inner builds for a computation that panicked with
\* payload p, from a popped frame with the given location and backtrace
\* (lib.rs:157-166); cause keeps what the computation panicked with
Caught(p, location, backtrace) ==
    /\ panic_data' =
           Some([data |-> map_err(Err(p), [capture_backtrace |-> "Default",
                                           location |-> location,
                                           backtrace |-> backtrace]).data[1],
                 cause |-> p])
    /\ UNCHANGED <<HOOK, PANIC_HOOK_STATUS, lock, THREAD_LOCAL_CATCH_STACK, ctl, pc,
                   fault, previous_hook, ret, ncalls, npanics, replacements, restores,
                   limits, env, installed, suspended, stale, out>>

\* panic_data.payload_as_string() (panic_data.rs:48-61): borrows the record
AsString ==
    /\ panic_data # None
    /\ out' = Some([op |-> "payload_as_string", input |-> panic_data[1].data,
                    cause |-> panic_data[1].cause,
                    value |-> payload_as_string(panic_data[1].data)])
    /\ UNCHANGED <<HOOK, PANIC_HOOK_STATUS, lock, THREAD_LOCAL_CATCH_STACK, ctl, pc,
                   fault, previous_hook, ret, ncalls, npanics, replacements, restores,
                   limits, env, installed, suspended, stale, panic_data>>

\* panic_data.payload_into_string() (panic_data.rs:68-93): consumes the record
IntoString ==
    /\ panic_data # None
    /\ out' = Some([op |-> "payload_into_string", input |-> panic_data[1].data,
                    cause |-> panic_data[1].cause,
                    value |-> payload_into_string(panic_data[1].data)])
    /\ panic_data' = None
    /\ UNCHANGED <<HOOK, PANIC_HOOK_STATUS, lock, THREAD_LOCAL_CATCH_STACK, ctl, pc,
                   fault, previous_hook, ret, ncalls, npanics, replacements, restores,
                   limits, env, installed, suspended, stale>>

NextData ==
    \/ \E p \in DataPayloads, location \in OptLocations, backtrace \in Backtraces :
           Caught(p, location, backtrace)
    \/ AsString
    \/ IntoString

SpecData == InitData /\ [][NextData]_vars

\* ------------------------------------------------------------------ properties
\* the PanicLocation of a raise site
SitePosition(l) == [file |-> l.file, line |-> l.line, col |-> l.column]

IsCatch(scope) == scope.kind = "catch"

Other(t) == Threads \ {t}

\* C1: a computation that returns v makes catch / catch_force_backtrace /
\* catch_never_backtrace return Ok(v), at any depth and whatever other threads do,
\* also when the hook fired for a panic the computation caught itself.
C1_SuccessValue ==
    \A t \in Threads :
        (ret[t] # None /\ ret[t][1].did.tag = "returned")
            => ret[t][1].result = [tag |-> "Ok", value |-> ret[t][1].did.value, data |-> <<>>]

C1_Witness ==
    \E t \in Threads :
        /\ ret[t] # None
        /\ ret[t][1].did.tag = "returned"
        /\ ret[t][1].did.value = 2
        /\ ret[t][1].last # None
        /\ \E u \in Other(t) : THREAD_LOCAL_CATCH_STACK[u] # <<>>

\* C2: when a panic escapes the computation, the boundary returns Err whose payload
\* is that panic's payload, of whatever type, and the panic goes no further: no
\* panic is in flight on the boundary's exit path or when its caller resumes, and a
\* panic in flight is still inside the call it was raised in.
C2_FaultAbsorbed ==
    \A t \in Threads :
        /\ (ret[t] # None /\ ret[t][1].did.tag = "fault")
              => /\ ret[t][1].result.tag = "Err"
                 /\ ret[t][1].result.data[1].payload = ret[t][1].did.payload
        /\ pc[t] \in {"pop", "rem_lock", "rem_set", "rem_unlock", "map_err", "returned"}
              => fault[t] = None
        /\ fault[t] # None => Len(ctl[t]) = fault[t][1].depth

C2_Witness ==
    \E t \in Threads :
        /\ ret[t] # None
        /\ ret[t][1].did.tag = "fault"
        /\ ret[t][1].did.payload.ty = "other"
        /\ ret[t][1].result.tag = "Err"
        /\ pc[t] = "returned"

\* C3: for a panic raised through the hook-invoking path that escapes to a boundary,
\* the location of the returned PanicData is the file, line and column of the raise.
C3_LocationIsRaiseSite ==
    \A t \in Threads :
        (ret[t] # None /\ ret[t][1].did.tag = "fault" /\ ret[t][1].did.hooked)
            => /\ ret[t][1].result.tag = "Err"
               /\ ret[t][1].result.data[1].location
                      = <<SitePosition(ret[t][1].did.location)>>

C3_Witness ==
    \E t \in Threads :
        /\ ret[t] # None
        /\ ret[t][1].did.tag = "fault"
        /\ ret[t][1].did.hooked
        /\ ret[t][1].did.location.line = 2
        /\ ret[t][1].result.tag = "Err"

\* C4: with boundaries nested on one thread, the frame of each active boundary holds
\* the position of the latest hook-invoking raise made while it was the innermost
\* boundary (nothing if there was none), so a raise at one depth never shows in the
\* frame or the record of a boundary at another depth; the record a boundary returns
\* has the payload of the panic that escaped its own computation and that position.
C4_NestedAttribution ==
    \A t \in Threads :
        LET cs == SelectSeq(ctl[t], IsCatch)
            st == THREAD_LOCAL_CATCH_STACK[t]
        IN  /\ Len(st) <= Len(cs)
            /\ \A i \in 1..Len(st) : st[i].location = cs[i].last
            /\ (ret[t] # None /\ ret[t][1].did.tag = "fault")
                  => /\ ret[t][1].result.tag = "Err"
                     /\ ret[t][1].result.data[1].payload = ret[t][1].did.payload
                     /\ ret[t][1].result.data[1].location = ret[t][1].last

C4_Witness ==
    \E t \in Threads :
        /\ ret[t] # None
        /\ ret[t][1].depth = 2
        /\ ret[t][1].did.tag = "fault"
        /\ ret[t][1].did.hooked
        /\ ret[t][1].result.data[1].location # None
        /\ Len(THREAD_LOCAL_CATCH_STACK[t]) = 1
        /\ THREAD_LOCAL_CATCH_STACK[t][1].location = None

\* a step that changes a thread's stack is a step of that thread and changes no
\* other thread; a location it writes is that of the thread's own panic in flight
C5_StepConfined ==
    \A t \in Threads :
        THREAD_LOCAL_CATCH_STACK'[t] # THREAD_LOCAL_CATCH_STACK[t]
            => /\ pc'[t] # pc[t]
               /\ \A u \in Other(t) :
                     /\ pc'[u] = pc[u]
                     /\ THREAD_LOCAL_CATCH_STACK'[u] = THREAD_LOCAL_CATCH_STACK[u]
               /\ Len(THREAD_LOCAL_CATCH_STACK'[t]) = Len(THREAD_LOCAL_CATCH_STACK[t])
                     => /\ fault'[t] # None
                        /\ Top(THREAD_LOCAL_CATCH_STACK'[t]).location
                               = <<SitePosition(fault'[t][1].location)>>

\* a record returned while another thread has a frame is the thread's own
C5_OwnRecord ==
    \A t \in Threads :
        (/\ ret[t] # None
         /\ ret[t][1].did.tag = "fault"
         /\ \E u \in Other(t) : THREAD_LOCAL_CATCH_STACK[u] # <<>>)
            => /\ ret[t][1].result.tag = "Err"
               /\ ret[t][1].result.data[1].payload = ret[t][1].did.payload
               /\ ret[t][1].did.hooked
                     => ret[t][1].result.data[1].location
                            = <<SitePosition(ret[t][1].did.location)>>

\* C5: a step changes the stack of one thread only, the thread taking the step, and
\* a location written into a frame is the location of the panic in flight on that
\* same thread; a record returned while another thread is in a boundary has the
\* payload and location of the thread's own panic.
C5_ThreadsDoNotMix == [](C5_OwnRecord) /\ [][C5_StepConfined]_vars

C5_Witness ==
    \E t \in Threads :
        /\ fault[t] # None
        /\ THREAD_LOCAL_CATCH_STACK[t] # <<>>
        /\ Top(THREAD_LOCAL_CATCH_STACK[t]).location # None
        /\ \E u \in Other(t) :
              /\ THREAD_LOCAL_CATCH_STACK[u] # <<>>
              /\ Top(THREAD_LOCAL_CATCH_STACK[u]).location = None
              /\ pc[u] = "run"

\* C6: a panic raised on a thread whose stack is not empty, also one the computation
\* then catches and discards itself, is never handed to the previous hook or to any
\* hook other than chillpill_panic_hook's storing branch.
C6_NoForwardInCatch ==
    \A t \in Threads :
        (fault[t] # None /\ fault[t][1].in_catch)
            => /\ fault[t][1].delivered = <<>>
               /\ pc[t] = "unwind"

C6_Witness ==
    \E t \in Threads :
        /\ fault[t] # None
        /\ fault[t][1].in_catch
        /\ fault[t][1].hooked
        /\ Top(ctl[t]).kind = "raw"
        /\ pc[t] = "unwind"

\* what the hook of such a panic has done once the thread unwinds
C7_Delivered ==
    \A t \in Threads :
        (/\ fault[t] # None
         /\ pc[t] = "unwind"
         /\ fault[t][1].hooked
         /\ ~fault[t][1].in_catch
         /\ fault[t][1].other_in)
            => fault[t][1].delivered =
                   <<[hook |-> UserHook,
                      info |-> [payload |-> fault[t][1].payload,
                                location |-> fault[t][1].location]]>>

\* the steps of a raise made on an empty stack, and of its hook, write no stack
C7_NoStackWrite ==
    \A t \in Threads :
        (/\ fault'[t] # None
         /\ fault'[t][1].hooked
         /\ ~fault'[t][1].in_catch
         /\ pc'[t] # pc[t])
            => THREAD_LOCAL_CATCH_STACK' = THREAD_LOCAL_CATCH_STACK

C12_LastWriteWins ==
    \A t \in Threads :
        (/\ ret[t] # None
         /\ ret[t][1].did.tag = "fault"
         /\ ret[t][1].did.hooked
         /\ ret[t][1].discarded # None
         /\ ret[t][1].discarded[1].hooked)
            => /\ ret[t][1].result.tag = "Err"
               /\ ret[t][1].result.data[1].payload = ret[t][1].did.payload
               /\ ret[t][1].result.data[1].location
                      = <<SitePosition(ret[t][1].did.location)>>

C12_Witness ==
    \E t \in Threads :
        /\ ret[t] # None
        /\ ret[t][1].did.tag = "fault"
        /\ ret[t][1].did.hooked
        /\ ret[t][1].discarded # None
        /\ ret[t][1].discarded[1].hooked
        /\ ret[t][1].discarded[1].location.line = 1
        /\ ret[t][1].did.location.line = 2
        /\ ret[t][1].discarded[1].payload.ty # ret[t][1].did.payload.ty
        /\ ret[t][1].result.tag = "Err"

\* C13: when the computation caught and dropped a panic in a raw catch_unwind and
\* then returned v, the boundary returns Ok(v), although the hook wrote the frame.
C13_DiscardedThenOk ==
    \A t \in Threads :
        (/\ ret[t] # None
         /\ ret[t][1].did.tag = "returned"
         /\ ret[t][1].discarded # None)
            => /\ ret[t][1].result.tag = "Ok"
               /\ ret[t][1].result.value = ret[t][1].did.value
               /\ ret[t][1].result.data = <<>>

C13_Witness ==
    \E t \in Threads :
        /\ ret[t] # None
        /\ ret[t][1].did.tag = "returned"
        /\ ret[t][1].discarded # None
        /\ ret[t][1].discarded[1].hooked
        /\ ret[t][1].last # None
        /\ ret[t][1].result.tag = "Ok"

\* C14: when the hook left a location in the frame of an invocation that has ended,
\* the record of a later invocation on the thread has the location of the latest
\* hook-invoking raise of its own computation, None (and a disabled backtrace) if
\* it had none, and the raise site of the escaping panic if that one invoked the hook.
C14_NoLeftovers ==
    \A t \in Threads :
        (/\ ret[t] # None
         /\ ret[t][1].stale # None
         /\ ret[t][1].did.tag = "fault")
            => /\ ret[t][1].result.tag = "Err"
               /\ ret[t][1].result.data[1].location = ret[t][1].last
               /\ ret[t][1].last = None
                     => ret[t][1].result.data[1].backtrace = Disabled
               /\ ret[t][1].did.hooked
                     => ret[t][1].result.data[1].location
                            = <<SitePosition(ret[t][1].did.location)>>

C14_Witness ==
    \E t \in Threads :
        /\ ret[t] # None
        /\ ret[t][1].stale # None
        /\ ret[t][1].stale[1].line = 1
        /\ ret[t][1].did.tag = "fault"
        /\ ret[t][1].did.hooked
        /\ ret[t][1].did.location.line = 2
        /\ ret[t][1].discarded = None
        /\ ret[t][1].result.tag = "Err"
        /\ ret[t][1].result.data[1].location # ret[t][1].stale

\* the backtrace the hook is to store for a panic under a policy and an environment
PolicyBacktrace(capture_backtrace, enabled) ==
    IF capture_backtrace = "Always" THEN Captured
    ELSE IF capture_backtrace = "Never" THEN Disabled
    ELSE IF enabled THEN Captured ELSE Disabled

\* C15: when the panic that escapes to a boundary did not invoke the hook, the record
\* has that panic's payload, and the location and backtrace of the latest
\* hook-invoking panic raised while the boundary's frame was the top frame, None and
\* a disabled backtrace if there was none.
C15_BypassKeepsLatest ==
    \A t \in Threads :
        (/\ ret[t] # None
         /\ ret[t][1].did.tag = "fault"
         /\ ~ret[t][1].did.hooked)
            => /\ ret[t][1].result.tag = "Err"
               /\ ret[t][1].result.data[1].payload = ret[t][1].did.payload
               /\ ret[t][1].result.data[1].location = ret[t][1].last
               /\ ret[t][1].result.data[1].backtrace =
                      IF ret[t][1].last = None THEN Disabled
                      ELSE PolicyBacktrace(ret[t][1].capture_backtrace, env)

\* C16: catch_force_backtrace returns a captured backtrace for a panic that reached
\* the hook.
C16_ForceCaptures ==
    \A t \in Threads :
        (/\ ret[t] # None
         /\ ret[t][1].capture_backtrace = "Always"
         /\ ret[t][1].did.tag = "fault"
         /\ ret[t][1].did.hooked)
            => /\ ret[t][1].result.tag = "Err"
               /\ ret[t][1].result.data[1].backtrace = Captured

\* C17: catch_never_backtrace returns a disabled backtrace for every panic, under
\* either environment.
C17_NeverDisabled ==
    \A t \in Threads :
        (/\ ret[t] # None
         /\ ret[t][1].capture_backtrace = "Never"
         /\ ret[t][1].did.tag = "fault")
            => /\ ret[t][1].result.tag = "Err"
               /\ ret[t][1].result.data[1].backtrace = Disabled

C17_Witness ==
    \E t \in Threads :
        /\ ret[t] # None
        /\ ret[t][1].capture_backtrace = "Never"
        /\ ret[t][1].did.tag = "fault"
        /\ ret[t][1].did.hooked
        /\ env
        /\ ret[t][1].result.data[1].backtrace = Disabled

\* C18: catch returns, for a panic that invoked the hook, a captured backtrace when
\* the environment asks for backtraces and a disabled one when it does not.
C18_DefaultFollowsEnv ==
    \A t \in Threads :
        (/\ ret[t] # None
         /\ ret[t][1].capture_backtrace = "Default"
         /\ ret[t][1].did.tag = "fault"
         /\ ret[t][1].did.hooked)
            => /\ ret[t][1].result.tag = "Err"
               /\ ret[t][1].result.data[1].backtrace
                      = IF env THEN Captured ELSE Disabled

\* C19: payload_as_string returns Some(text) exactly when the payload is a &str or a
\* String, with the payload's own text, and None for any other payload; for a record
\* the boundary built for a computation that panicked with a text, it is that text.
C19_AsStringExact ==
    out # None /\ out[1].op = "payload_as_string"
        => /\ out[1].input.payload.ty \in {"&str", "String"}
                 => out[1].value = <<out[1].input.payload.val>>
           /\ out[1].input.payload.ty \notin {"&str", "String"}
                 => out[1].value = <<>>
           /\ out[1].cause.ty \in {"&str", "String"}
                 => out[1].value = <<out[1].cause.val>>

C19_Witness ==
    /\ out # None
    /\ out[1].op = "payload_as_string"
    /\ out[1].cause = [ty |-> "String", val |-> 2]
    /\ out[1].value = <<2>>

\* C20: payload_into_string on a record whose payload is neither a &str nor a String
\* returns Err with the record it was given: same payload (type and value), same
\* location, same backtrace.
C20_IntoStringGivesBack ==
    (/\ out # None
     /\ out[1].op = "payload_into_string"
     /\ out[1].input.payload.ty \notin {"&str", "String"})
        => /\ out[1].value.tag = "Err"
           /\ out[1].value.data = <<out[1].input>>
           /\ out[1].value.data[1].payload = out[1].cause

C20_Witness ==
    /\ out # None
    /\ out[1].op = "payload_into_string"
    /\ out[1].input.payload = [ty |-> "other", val |-> 2]
    /\ out[1].input.location # <<>>
    /\ out[1].input.backtrace = Captured
    /\ out[1].value.tag = "Err"
    /\ panic_data = <<>>

\* positions of catch_inner before its push (lib.rs:135-141) and after its pop
\* (lib.rs:155-166)
BeforePush == {"add_lock", "add_take", "add_set", "add_unlock", "push"}
AfterPop == {"rem_lock", "rem_set", "rem_unlock", "map_err", "remove_panicked"}

\* boundary invocations of a thread that have pushed their frame and not popped it
Pushed(t) ==
    LET n == Cardinality({i \in 1..Len(ctl[t]) : ctl[t][i].kind = "catch"})
    IN  IF pc[t] \in BeforePush \cup AfterPop THEN n - 1 ELSE n

C21_DepthIsPushed ==
    \A t \in Threads : Len(THREAD_LOCAL_CATCH_STACK[t]) = Pushed(t)

\* the depth changes by the one push of an invocation, made before its computation
\* runs, and by its one pop, made when the computation has returned or unwound
C21_OnePushOnePop ==
    \A t \in Threads :
        LET before == Len(THREAD_LOCAL_CATCH_STACK[t])
            after == Len(THREAD_LOCAL_CATCH_STACK'[t])
        IN  after # before
                => \/ /\ pc[t] = "push"
                      /\ pc'[t] = "run"
                      /\ after = before + 1
                   \/ /\ pc[t] = "pop"
                      /\ pc'[t] = "rem_lock"
                      /\ Top(ctl[t]).result # None
                      /\ after = before - 1

\* C21: the depth of a thread's stack is the number of boundary invocations of the
\* thread that have pushed their frame and not yet popped it; an invocation pushes
\* one frame before its computation runs and pops one after it, whether the
\* computation returned or panicked.
C21_BalancedStack == [](C21_DepthIsPushed) /\ [][C21_OnePushOnePop]_vars

C21_Witness ==
    \E t \in Threads :
        /\ Len(THREAD_LOCAL_CATCH_STACK[t]) = 1
        /\ Len(ctl[t]) = 2
        /\ pc[t] = "rem_lock"
        /\ Top(ctl[t]).kind = "catch"
        /\ Top(ctl[t]).did[1].tag = "fault"
        /\ ctl[t][1].kind = "catch"

\* C22: the pop of a boundary invocation never finds the stack empty (the expect of
\* lib.rs:152-154 never fires), for nested boundaries and for computations that
\* return, panic, or catch a panic themselves.
C22_PopFindsFrame ==
    \A t \in Threads :
        /\ pc[t] # "expect_failed"
        /\ pc[t] = "pop" => THREAD_LOCAL_CATCH_STACK[t] # <<>>

C22_Witness ==
    \E t \in Threads :
        /\ pc[t] = "rem_lock"
        /\ Len(ctl[t]) = 1
        /\ Top(ctl[t]).frame # None
        /\ Top(ctl[t]).did[1].tag = "fault"
        /\ Top(ctl[t]).discarded # None
        /\ ncalls[t] = MaxCalls
        /\ THREAD_LOCAL_CATCH_STACK[t] = <<>>

\* a step in which chillpill_panic_hook runs on thread t with a frame on its stack
HookFiresInCatch(t) ==
    /\ pc[t] = "run"
    /\ pc'[t] # "run"
    /\ HOOK = ChillpillHook
    /\ THREAD_LOCAL_CATCH_STACK[t] # <<>>
    /\ fault'[t] # None
    /\ fault'[t][1].hooked

C23_OnlyTopLocation ==
    \A t \in Threads :
        HookFiresInCatch(t)
            => LET before == THREAD_LOCAL_CATCH_STACK[t]
                   after == THREAD_LOCAL_CATCH_STACK'[t]
               IN  /\ Len(after) = Len(before)
                   /\ Top(after).capture_backtrace = Top(before).capture_backtrace
                   /\ \A i \in 1..(Len(before) - 1) : after[i] = before[i]
                   /\ \A u \in Other(t) :
                         THREAD_LOCAL_CATCH_STACK'[u] = THREAD_LOCAL_CATCH_STACK[u]

\* C23: when chillpill_panic_hook fires on a thread whose stack is not empty, it
\* changes at most the location and backtrace of the top frame: the depth, the top
\* frame's capture_backtrace, every frame below the top and every other thread's
\* stack are as before.
C23_HookFrameEffect == [][C23_OnlyTopLocation]_vars

C23_Witness ==
    \E t \in Threads :
        /\ pc[t] = "unwind"
        /\ fault[t] # None
        /\ fault[t][1].hooked
        /\ Len(THREAD_LOCAL_CATCH_STACK[t]) = 2
        /\ Top(THREAD_LOCAL_CATCH_STACK[t]).location # None
        /\ Top(THREAD_LOCAL_CATCH_STACK[t]).capture_backtrace = "Always"
        /\ THREAD_LOCAL_CATCH_STACK[t][1].location = None
        /\ THREAD_LOCAL_CATCH_STACK[t][1].capture_backtrace = "Never"
        /\ \E u \in Other(t) : THREAD_LOCAL_CATCH_STACK[u] # <<>>

\* thread t holds the PANIC_HOOK_STATUS mutex and its next step writes the hook slot,
\* for which std waits until no hook is running
WaitsForHookSlot(t) ==
    /\ lock = t
    /\ pc[t] \in {"add_take", "add_set", "rem_set"}
    /\ ~panicking(t)

\* thread u runs chillpill_panic_hook, holding std's hook lock for reading, and its
\* next step locks the PANIC_HOOK_STATUS mutex
WaitsForStatus(u) == pc[u] = "hook_lock"

C25_HookSeesReplaced ==
    \A t \in Threads :
        /\ pc[t] # "unreachable"
        /\ (pc[t] = "hook_lock" /\ lock = Free)
              => /\ PANIC_HOOK_STATUS.tag = "Replaced"
                 /\ PANIC_HOOK_STATUS.previous_hook = UserHook

C25_Witness ==
    \E t \in Threads :
        /\ pc[t] = "unwind"
        /\ fault[t] # None
        /\ ~fault[t][1].in_catch
        /\ fault[t][1].other_in
        /\ Len(fault[t][1].delivered) = 1
        /\ \E u \in Other(t) :
              /\ pc[u] = "rem_lock"
              /\ PANIC_HOOK_STATUS.tag = "Replaced"
              /\ PANIC_HOOK_STATUS.threads_in_catch = 1

\* positions at which the catch call on top of a thread's call stack has not made
\* the status write of its add_chillpill_thread, or has made that of its
\* remove_chillpill_thread
NotCounted ==
    {"add_lock", "add_take", "add_set", "rem_set", "rem_unlock", "map_err",
     "remove_panicked"}

\* add_chillpill_thread calls of a thread not yet matched by a remove
Unmatched(t) ==
    LET n == Cardinality({i \in 1..Len(ctl[t]) : ctl[t][i].kind = "catch"})
    IN  IF pc[t] \in NotCounted THEN n - 1 ELSE n

RECURSIVE SumUnmatched(_)
SumUnmatched(S) ==
    IF S = {} THEN 0
    ELSE LET t == CHOOSE x \in S : TRUE IN Unmatched(t) + SumUnmatched(S \ {t})

C26_CountIsUnmatched ==
    IF SumUnmatched(Threads) = 0
    THEN PANIC_HOOK_STATUS = NotReplaced
    ELSE /\ PANIC_HOOK_STATUS.tag = "Replaced"
         /\ PANIC_HOOK_STATUS.threads_in_catch = SumUnmatched(Threads)

\* the previous hook is put back by the remove that found threads_in_catch = 1, and
\* by no other
C26_PutBackAtZero ==
    /\ \A t \in Threads :
          (pc[t] = "rem_lock" /\ pc'[t] = "rem_set")
              <=> (pc[t] = "rem_lock" /\ pc'[t] # pc[t]
                   /\ PANIC_HOOK_STATUS.tag = "Replaced"
                   /\ PANIC_HOOK_STATUS.threads_in_catch = 1)
    /\ restores' # restores
          => /\ \E t \in Threads : pc[t] = "rem_set"
             /\ SumUnmatched(Threads) = 0
             /\ HOOK' = UserHook
    /\ (HOOK = ChillpillHook /\ HOOK' # ChillpillHook) => restores' = restores + 1

\* C26: with every remove_chillpill_thread following its own add_chillpill_thread,
\* PANIC_HOOK_STATUS is Replaced with threads_in_catch = n exactly when n >= 1 adds
\* are not matched by a remove and NotReplaced exactly when none is, and the
\* previous hook is put back only on the step from 1 to 0.
C26_RefCount == [](C26_CountIsUnmatched) /\ [][C26_PutBackAtZero]_vars

C26_Witness ==
    \E t \in Threads : \E u \in Other(t) :
        /\ pc[t] = "map_err"
        /\ restores = 0
        /\ replacements = 1
        /\ PANIC_HOOK_STATUS = Replaced(UserHook, 1)
        /\ THREAD_LOCAL_CATCH_STACK[u] # <<>>
        /\ HOOK = ChillpillHook

SomeFrame == \E t \in Threads : THREAD_LOCAL_CATCH_STACK[t] # <<>>

\* a panic raised through the hook-invoking path while the thread has a frame is in
\* flight only as one whose location the storing branch has written
C27_InstalledWhileFrames ==
    /\ SomeFrame => HOOK = ChillpillHook
    /\ \A t \in Threads :
          (fault[t] # None /\ fault[t][1].hooked /\ fault[t][1].in_catch)
              => fault[t][1].delivered = <<>>

\* a frame is pushed with the hook installed, and the hook is taken out of the slot
\* with no frame on any thread
C27_InstallBracketsFrames ==
    /\ (\E t \in Threads : pc[t] = "push" /\ pc'[t] # pc[t]) => HOOK = ChillpillHook
    /\ (HOOK = ChillpillHook /\ HOOK' # ChillpillHook) => ~SomeFrame /\ ~SomeFrame'

\* C27: in every state in which some thread has a frame on its stack, the
\* process-wide hook is chillpill_panic_hook, so every hook-invoking panic raised
\* inside a computation reaches it; the hook is installed before the frame is pushed
\* and is not taken out while a frame exists on any thread.
C27_HookWhileFrames == [](C27_InstalledWhileFrames) /\ [][C27_InstallBracketsFrames]_vars

C27_Witness ==
    \E t \in Threads : \E u \in Other(t) :
        /\ pc[t] = "map_err"
        /\ ret[t] = None
        /\ THREAD_LOCAL_CATCH_STACK[t] = <<>>
        /\ THREAD_LOCAL_CATCH_STACK[u] # <<>>
        /\ fault[u] # None
        /\ fault[u][1].hooked
        /\ Top(THREAD_LOCAL_CATCH_STACK[u]).location # None
        /\ HOOK = ChillpillHook

\* C28: the previous hook held in PANIC_HOOK_STATUS is never chillpill_panic_hook,
\* after any entries and exits of catch calls on any threads: take_hook is called
\* only while the status is NotReplaced, so what it returns, what the status holds
\* and what a panic on an empty stack is delegated to is the hook registered before
\* the installation.
C28_NoSelfDelegation ==
    /\ PANIC_HOOK_STATUS.tag = "Replaced" => PANIC_HOOK_STATUS.previous_hook = UserHook
    /\ \A t \in Threads :
          /\ pc[t] \in {"add_set", "rem_set"} => previous_hook[t] = UserHook
          /\ pc[t] = "add_take" => PANIC_HOOK_STATUS.tag = "NotReplaced"
          /\ fault[t] # None
                => \A i \in 1..Len(fault[t][1].delivered) :
                      /\ fault[t][1].delivered[i].hook # ChillpillHook
                      /\ fault[t][1].other_in
                            => fault[t][1].delivered[i].hook = UserHook

C28_Witness ==
    \E t \in Threads :
        /\ replacements = 2
        /\ PANIC_HOOK_STATUS = Replaced(UserHook, 1)
        /\ fault[t] # None
        /\ ~fault[t][1].in_catch
        /\ fault[t][1].other_in
        /\ fault[t][1].after_return
        /\ Len(fault[t][1].delivered) = 1
        /\ fault[t][1].delivered[1].hook = UserHook

\* a refused call has pushed no frame and left the slot and the status as they were
\* before any installation
C29_RefusedState ==
    \A t \in Threads :
        pc[t] = "refused"
            => /\ panicking(t)
               /\ THREAD_LOCAL_CATCH_STACK[t] = <<>>
               /\ HOOK = UserHook
               /\ PANIC_HOOK_STATUS = NotReplaced
               /\ replacements = 0
               /\ lock = Free

\* the refusing step changes neither a stack nor the slot
C29_RefusingStep ==
    \A t \in Threads :
        (pc[t] # "refused" /\ pc'[t] = "refused")
            => /\ pc[t] = "add_lock"
               /\ THREAD_LOCAL_CATCH_STACK' = THREAD_LOCAL_CATCH_STACK
               /\ HOOK' = HOOK
               /\ PANIC_HOOK_STATUS' = PANIC_HOOK_STATUS

\* C29: a catch call refused as a first call made from an unwinding thread panics
\* before it pushes a frame and without replacing the hook: the calling thread's
\* stack and the process-wide hook are as they were before the call.
C29_RefusalLeavesNoTrace == [](C29_RefusedState) /\ [][C29_RefusingStep]_vars

C29_Witness ==
    \E t \in Threads :
        /\ pc[t] = "refused"
        /\ suspended[t] # None
        /\ suspended[t][1].hooked
        /\ Len(ctl[t]) = 1
        /\ Top(ctl[t]).kind = "catch"
        /\ HOOK = UserHook

====
